---- MODULE Spec2Model ----
(***************************************************************************)
(* A model of DataProcessor (src/src/core/data_processor.py): the session  *)
(* object that holds an original and a processed table, a deletion plan, a *)
(* recalculation plan, a processing history and the cross-sheet index.     *)
(*                                                                         *)
(* Text is ASCII here.  The Chinese literals of the source are written in  *)
(* pinyin initials: "fphm" is the invoice-number column, "sdfphm" the      *)
(* digital-invoice-number column (its name contains "fphm", as in the      *)
(* source), "hwmc" the goods-name column, "heji", "zongji" and "xiaoji"    *)
(* the three Chinese summary keywords.                                     *)
(***************************************************************************)
EXTENDS Integers, Sequences, FiniteSets, TLC

VARIABLES
    original_data,            \* self.original_data (None or a DataFrame)
    processed_data,           \* self.processed_data
    columns_to_delete,        \* self.columns_to_delete, a list of names
    columns_to_recalculate,   \* self.columns_to_recalculate
    processing_history,       \* self.processing_history, a list of records
    cross_sheet_data,         \* self.cross_sheet_data, sheet name -> DataFrame
    op,                       \* the method called last
    ret,                      \* what it returned: "True", "False" or "None"
    batch                     \* the last batch run of the window: its files, the
                              \* selection, its counters and what it saved

vars == <<original_data, processed_data, columns_to_delete,
          columns_to_recalculate, processing_history, cross_sheet_data,
          op, ret, batch>>

session == <<original_data, processed_data, columns_to_delete,
             columns_to_recalculate, processing_history, cross_sheet_data>>

(***************************************************************************)
(* Bounds of the model.                                                    *)
(***************************************************************************)
MaxHistory == 2

(***************************************************************************)
(* Python lists.                                                           *)
(***************************************************************************)
Range(s) == {s[i] : i \in 1..Len(s)}

\* x in s, for a list s
In(x, s) == \E i \in 1..Len(s) : s[i] = x

\* the position of the first x in s (s contains x)
IndexOf(x, s) == CHOOSE i \in 1..Len(s) : s[i] = x /\ \A j \in 1..(i - 1) : s[j] # x

\* a in b, for two strings: a occurs in b as a substring
StrIn(a, b) == \E i \in 1..(Len(b) - Len(a) + 1) : SubSeq(b, i, i + Len(a) - 1) = a

\* s.strip(): s without its leading and trailing blanks
RECURSIVE Strip(_)
Strip(s) ==
    IF Len(s) = 0 THEN s
    ELSE IF SubSeq(s, 1, 1) = " " THEN Strip(SubSeq(s, 2, Len(s)))
    ELSE IF SubSeq(s, Len(s), Len(s)) = " " THEN Strip(SubSeq(s, 1, Len(s) - 1))
    ELSE s

\* str(n) of a Python int
RECURSIVE IntStr(_)
IntStr(n) ==
    IF n < 0 THEN "-" \o IntStr(0 - n)
    ELSE IF n < 10 THEN SubSeq("0123456789", n + 1, n + 1)
    ELSE IntStr(n \div 10) \o SubSeq("0123456789", (n % 10) + 1, (n % 10) + 1)

(***************************************************************************)
(* Cells and DataFrames.  A cell is a number, a text or NaN; a DataFrame   *)
(* is its ordered column names, the dtype of each column and its rows,     *)
(* each row a function from column name to cell.  The row index is the     *)
(* default RangeIndex, so a row's label is its position.                   *)
(***************************************************************************)
Num(n) == [t |-> "num", n |-> n, s |-> ""]
Txt(s) == [t |-> "txt", n |-> 0, s |-> s]
NaN == [t |-> "nan", n |-> 0, s |-> ""]

None == [none |-> TRUE, cols |-> <<>>, dtype |-> <<>>, rows |-> <<>>]

\* pd.isna / pd.notna of a cell
notna(c) == c.t # "nan"

\* str(c): numbers of a float64 column print with ".0"
Str(c, dtype) ==
    IF c.t = "txt" THEN c.s
    ELSE IF c.t = "nan" THEN "nan"
    ELSE IF dtype = "float64" THEN IntStr(c.n) \o ".0"
    ELSE IntStr(c.n)

\* the dtype pandas.read_excel gives a column of these cells
InferDtype(cells) ==
    IF \E i \in 1..Len(cells) : cells[i].t = "txt" THEN "object"
    ELSE IF \E i \in 1..Len(cells) : cells[i].t = "nan" THEN "float64"
    ELSE "int64"

\* the DataFrame read from a sheet with header cols and the given rows of cells
ReadFrame(cols, table) ==
    [none  |-> FALSE,
     cols  |-> cols,
     dtype |-> [c \in Range(cols) |->
                   InferDtype([i \in 1..Len(table) |-> table[i][IndexOf(c, cols)]])],
     rows  |-> [i \in 1..Len(table) |->
                   [c \in Range(cols) |-> table[i][IndexOf(c, cols)]]]]

\* df.empty
empty(df) == Len(df.cols) = 0 \/ Len(df.rows) = 0

\* pd.api.types.is_numeric_dtype(df[col])
is_numeric_dtype(df, col) == df.dtype[col] \in {"int64", "float64"}

\* the dtype of row[col] in iterrows(): a row of an all-numeric frame with a
\* float64 column is a float64 Series
RowDtype(df, col) ==
    IF (\A c \in Range(df.cols) : is_numeric_dtype(df, c))
       /\ (\E c \in Range(df.cols) : df.dtype[c] = "float64")
    THEN "float64"
    ELSE df.dtype[col]

\* df[columns], columns a list of names of df
SelectColumns(df, columns) ==
    [none  |-> FALSE,
     cols  |-> columns,
     dtype |-> [c \in Range(columns) |-> df.dtype[c]],
     rows  |-> [i \in 1..Len(df.rows) |-> [c \in Range(columns) |-> df.rows[i][c]]]]

(***************************************************************************)
(* The tables the sheets of a workbook hold.                               *)
(***************************************************************************)
\* an invoice sheet: two invoices and a summary row whose total is stale
SheetInvoice ==
    ReadFrame(<<"fphm", "je", "bz">>,
              << <<Txt("1"), Num(1), Txt("x")>>,
                 <<Txt("2"), Num(2), NaN>>,
                 <<Txt("heji"), Num(9), NaN>> >>)

\* another workbook's sheet: no invoice-number column and no summary row
SheetOther ==
    ReadFrame(<<"gfmc", "se">>,
              << <<Txt("a"), Num(5)>>,
                 <<Txt("b"), NaN>> >>)

\* a sheet with a header and no rows
SheetEmpty == ReadFrame(<<"fphm">>, <<>>)

Datasets == {SheetInvoice, SheetOther, SheetEmpty}

\* the lists of names a caller asks to delete
DeleteRequests ==
    {<<>>, <<"bz", "zz">>, <<"fphm", "je", "bz">>}

(***************************************************************************)
(* The window before any batch run: no files, nothing counted or saved.    *)
(***************************************************************************)
no_batch ==
    [batch_files |-> <<>>, selected_columns_to_delete |-> <<>>,
     processed_files |-> 0, failed_files |-> <<>>, batch_stats |-> <<>>,
     saved |-> <<>>]

(***************************************************************************)
(* The session after DataProcessor.__init__.                               *)
(***************************************************************************)
Init ==
    /\ batch = no_batch
    /\ original_data = None
    /\ processed_data = None
    /\ columns_to_delete = <<>>
    /\ columns_to_recalculate = <<>>
    /\ processing_history = <<>>
    /\ cross_sheet_data = <<>>
    /\ op = "__init__"
    /\ ret = "None"

(***************************************************************************)
(* load_data(data)                                                         *)
(***************************************************************************)
\* a slip: the dataset is stored before it is tested for emptiness
load_data_StoresBeforeTest(data) ==
    /\ op' = "load_data"
    /\ original_data' = data
    /\ processed_data' = data
    /\ ret' = IF empty(data) THEN "False" ELSE "True"
    /\ UNCHANGED <<columns_to_delete, columns_to_recalculate,
                   processing_history, cross_sheet_data>>

load_data(data) ==
    /\ op' = "load_data"
    /\ IF empty(data)
       THEN /\ ret' = "False"
            /\ UNCHANGED session
       ELSE /\ original_data' = data
            /\ processed_data' = data
            /\ ret' = "True"
            /\ UNCHANGED <<columns_to_delete, columns_to_recalculate,
                           processing_history, cross_sheet_data>>

(***************************************************************************)
(* set_columns_to_delete(columns)                                          *)
(***************************************************************************)
\* a slip: the request is stored as it came
valid_columns_Unfiltered(columns, available_columns) == columns

\* a slip: the columns the request names, in the order of the dataset
valid_columns_InColumnOrder(columns, available_columns) ==
    SelectSeq(available_columns, LAMBDA col : In(col, columns))

\* valid_columns: the requested names that are columns, in request order
valid_columns(columns, available_columns) ==
    SelectSeq(columns, LAMBDA col : In(col, available_columns))

set_columns_to_delete(columns) ==
    /\ op' = "set_columns_to_delete"
    /\ IF original_data.none
       THEN /\ ret' = "False"
            /\ UNCHANGED session
       ELSE /\ columns_to_delete' = valid_columns(columns, original_data.cols)
            /\ ret' = "True"
            /\ UNCHANGED <<original_data, processed_data, columns_to_recalculate,
                           processing_history, cross_sheet_data>>

(***************************************************************************)
(* validate_deletion()                                                     *)
(***************************************************************************)
\* a slip: the columns the plan names are the ones kept
remaining_columns_Kept(df, plan) ==
    SelectSeq(df.cols, LAMBDA col : In(col, plan))

\* remaining_columns: the columns of df that the plan does not name
remaining_columns(df, plan) ==
    SelectSeq(df.cols, LAMBDA col : ~In(col, plan))

\* a slip: the check that a column remains is left out
validate_deletion_NoRemainingCheck(original, plan) ==
    IF original.none THEN FALSE
    ELSE IF plan = <<>> THEN TRUE
    ELSE IF \E i \in 1..Len(plan) : ~In(plan[i], original.cols) THEN FALSE
    ELSE TRUE

\* the boolean validate_deletion returns for this original and this plan
validate_deletion(original, plan) ==
    IF original.none THEN FALSE
    ELSE IF plan = <<>> THEN TRUE
    ELSE IF remaining_columns(original, plan) = <<>> THEN FALSE
    ELSE IF \E i \in 1..Len(plan) : ~In(plan[i], original.cols) THEN FALSE
    ELSE TRUE

(***************************************************************************)
(* identify_summary_row(data) and update_summary_row(columns, data)        *)
(***************************************************************************)
summary_keywords == <<"heji", "zongji", "xiaoji", "Total", "Sum">>

\* a cell of row i shows a keyword
RowHasKeyword(df, i) ==
    \E c \in Range(df.cols) : \E k \in 1..Len(summary_keywords) :
        StrIn(summary_keywords[k], Strip(Str(df.rows[i][c], RowDtype(df, c))))

\* a slip: the scan keeps going and the last keyword row wins
identify_summary_row_LastMatch(df) ==
    IF empty(df)
    THEN [success |-> FALSE, has_summary_row |-> FALSE, summary_row_index |-> 0]
    ELSE IF \E i \in 1..Len(df.rows) : RowHasKeyword(df, i)
    THEN [success |-> TRUE, has_summary_row |-> TRUE,
          summary_row_index |->
              CHOOSE i \in 1..Len(df.rows) :
                  RowHasKeyword(df, i)
                  /\ \A j \in (i + 1)..Len(df.rows) : ~RowHasKeyword(df, j)]
    ELSE [success |-> TRUE, has_summary_row |-> FALSE, summary_row_index |-> 0]

\* summary_row_index is a position from 1; 0 stands for None
identify_summary_row(df) ==
    IF empty(df)
    THEN [success |-> FALSE, has_summary_row |-> FALSE, summary_row_index |-> 0]
    ELSE IF \E i \in 1..Len(df.rows) : RowHasKeyword(df, i)
    THEN [success |-> TRUE, has_summary_row |-> TRUE,
          summary_row_index |->
              CHOOSE i \in 1..Len(df.rows) :
                  RowHasKeyword(df, i) /\ \A j \in 1..(i - 1) : ~RowHasKeyword(df, j)]
    ELSE [success |-> TRUE, has_summary_row |-> FALSE, summary_row_index |-> 0]

\* df[col].sum() over every row but row skip: NaN cells count as nothing
RECURSIVE SumFrom(_, _, _, _)
SumFrom(df, col, skip, i) ==
    IF i > Len(df.rows) THEN 0
    ELSE (IF i # skip /\ df.rows[i][col].t = "num" THEN df.rows[i][col].n ELSE 0)
         + SumFrom(df, col, skip, i + 1)

\* a slip: every numeric column of the summary row is recomputed
updated_columns_AllNumeric(df, columns) ==
    {c \in Range(df.cols) : is_numeric_dtype(df, c)}

\* the columns update_summary_row recomputes
updated_columns(df, columns) ==
    {columns[k] : k \in {j \in 1..Len(columns) :
        In(columns[j], df.cols) /\ is_numeric_dtype(df, columns[j])}}

\* a slip: without a keyword row the last row is taken for the summary row
update_summary_row_LastRowByDefault(columns, df) ==
    LET summary_info == identify_summary_row(df)
        idx == IF summary_info.has_summary_row
               THEN summary_info.summary_row_index
               ELSE Len(df.rows)
    IN  [df EXCEPT !.rows[idx] =
            [c \in Range(df.cols) |->
                IF c \in updated_columns(df, columns)
                THEN Num(SumFrom(df, c, idx, 1))
                ELSE df.rows[idx][c]]]

\* the frame update_summary_row leaves in processed_data
update_summary_row(columns, df) ==
    LET summary_info == identify_summary_row(df)
        idx == summary_info.summary_row_index
    IN  IF ~summary_info.success \/ ~summary_info.has_summary_row THEN df
        ELSE [df EXCEPT !.rows[idx] =
                 [c \in Range(df.cols) |->
                     IF c \in updated_columns(df, columns)
                     THEN Num(SumFrom(df, c, idx, 1))
                     ELSE df.rows[idx][c]]]

(***************************************************************************)
(* process_data()                                                          *)
(***************************************************************************)
\* the record process_data appends
processing_record(action, deleted, original, processed) ==
    [action                  |-> action,
     deleted_columns         |-> deleted,
     original_columns_count  |-> Len(original.cols),
     remaining_columns_count |-> Len(processed.cols),
     data_rows               |-> Len(processed.rows)]

\* a slip: every record is a deletion record
ActionKind_AlwaysDeletion(plan) == "delete_columns"

\* the action kind of the record
ActionKind(plan) == IF plan # <<>> THEN "delete_columns" ELSE "no_deletion"

\* a slip: the record is assigned, not appended
AppendRecord_Assigned(history, record) == <<record>>

\* self.processing_history.append(record)
AppendRecord(history, record) == Append(history, record)

\* a slip: the rows with an empty cell go with the deleted columns
DeletionStep_DropsSparseRows(original, plan) ==
    LET kept == IF plan # <<>>
                THEN SelectColumns(original, remaining_columns(original, plan))
                ELSE original
    IN  [kept EXCEPT !.rows =
            SelectSeq(kept.rows,
                      LAMBDA row : \A c \in DOMAIN row : notna(row[c]))]

\* processed_data after the deletion step
DeletionStep(original, plan) ==
    IF plan # <<>>
    THEN SelectColumns(original, remaining_columns(original, plan))
    ELSE original

\* processed_data after the recalculation step
RecalculationStep(processed, recalculate) ==
    LET remaining_recalc_columns ==
            SelectSeq(recalculate, LAMBDA col : In(col, processed.cols))
    IN  IF recalculate # <<>> /\ remaining_recalc_columns # <<>>
        THEN update_summary_row(remaining_recalc_columns, processed)
        ELSE processed

\* a slip: the plan is consumed by the run that applies it
process_data_ConsumesPlan ==
    /\ op' = "process_data"
    /\ IF original_data.none
          \/ (columns_to_delete # <<>>
              /\ ~validate_deletion(original_data, columns_to_delete))
       THEN /\ ret' = "False"
            /\ UNCHANGED session
       ELSE /\ Len(processing_history) < MaxHistory
            /\ LET deleted == DeletionStep(original_data, columns_to_delete)
               IN  /\ processed_data' =
                          RecalculationStep(deleted, columns_to_recalculate)
                   /\ processing_history' =
                          AppendRecord(processing_history,
                              processing_record(ActionKind(columns_to_delete),
                                  columns_to_delete, original_data, deleted))
            /\ columns_to_delete' = <<>>
            /\ ret' = "True"
            /\ UNCHANGED <<original_data, columns_to_recalculate, cross_sheet_data>>

\* a slip: the summary row is the one located in the original dataset
process_data_SummaryRowOfOriginal ==
    /\ op' = "process_data"
    /\ IF original_data.none
          \/ (columns_to_delete # <<>>
              /\ ~validate_deletion(original_data, columns_to_delete))
       THEN /\ ret' = "False"
            /\ UNCHANGED session
       ELSE /\ Len(processing_history) < MaxHistory
            /\ LET deleted == DeletionStep(original_data, columns_to_delete)
                   idx == identify_summary_row(original_data).summary_row_index
                   remaining == SelectSeq(columns_to_recalculate,
                                          LAMBDA col : In(col, deleted.cols))
               IN  /\ processed_data' =
                          IF remaining # <<>> /\ idx # 0
                          THEN [deleted EXCEPT !.rows[idx] =
                                   [c \in Range(deleted.cols) |->
                                       IF c \in updated_columns(deleted, remaining)
                                       THEN Num(SumFrom(deleted, c, idx, 1))
                                       ELSE deleted.rows[idx][c]]]
                          ELSE deleted
                   /\ processing_history' =
                          AppendRecord(processing_history,
                              processing_record(ActionKind(columns_to_delete),
                                  columns_to_delete, original_data, deleted))
            /\ ret' = "True"
            /\ UNCHANGED <<original_data, columns_to_delete,
                           columns_to_recalculate, cross_sheet_data>>

process_data ==
    /\ op' = "process_data"
    /\ IF original_data.none
       THEN /\ ret' = "False"
            /\ UNCHANGED session
       ELSE IF columns_to_delete # <<>>
               /\ ~validate_deletion(original_data, columns_to_delete)
       THEN /\ ret' = "False"
            /\ UNCHANGED session
       ELSE /\ Len(processing_history) < MaxHistory
            /\ LET deleted == DeletionStep(original_data, columns_to_delete)
               IN  /\ processed_data' =
                          RecalculationStep(deleted, columns_to_recalculate)
                   /\ processing_history' =
                          AppendRecord(processing_history,
                              processing_record(ActionKind(columns_to_delete),
                                  columns_to_delete, original_data, deleted))
            /\ ret' = "True"
            /\ UNCHANGED <<original_data, columns_to_delete,
                           columns_to_recalculate, cross_sheet_data>>

(***************************************************************************)
(* reset()                                                                 *)
(***************************************************************************)
reset ==
    /\ op' = "reset"
    /\ processed_data' = original_data
    /\ columns_to_delete' = <<>>
    /\ processing_history' = <<>>
    /\ ret' = "None"
    /\ UNCHANGED <<original_data, columns_to_recalculate, cross_sheet_data>>

(***************************************************************************)
(* apply_template(template_columns)                                        *)
(***************************************************************************)
\* a slip: the last such column is taken
FuzzyMatch_LastHit(template_col, available_columns) ==
    LET hits == SelectSeq(available_columns,
                    LAMBDA col : StrIn(template_col, col) \/ StrIn(col, template_col))
    IN  IF hits = <<>> THEN <<>> ELSE <<hits[Len(hits)]>>

\* the first column that contains the template name or is contained in it,
\* as a one-element list, or the empty list
FuzzyMatch(template_col, available_columns) ==
    LET hits == SelectSeq(available_columns,
                    LAMBDA col : StrIn(template_col, col) \/ StrIn(col, template_col))
    IN  IF hits = <<>> THEN <<>> ELSE <<hits[1]>>

\* matched_columns after the template names from position k on
RECURSIVE MatchTemplate(_, _, _, _)
MatchTemplate(template_columns, available_columns, matched_columns, k) ==
    IF k > Len(template_columns) THEN matched_columns
    ELSE LET template_col == template_columns[k]
             fuzzy == FuzzyMatch(template_col, available_columns)
             next == IF In(template_col, available_columns)
                     THEN Append(matched_columns, template_col)
                     ELSE IF fuzzy # <<>> /\ ~In(fuzzy[1], matched_columns)
                     THEN Append(matched_columns, fuzzy[1])
                     ELSE matched_columns
         IN  MatchTemplate(template_columns, available_columns, next, k + 1)

\* the lists of template names a caller applies
TemplateRequests == {<<"zz", "b">>}

apply_template(template_columns) ==
    /\ op' = "apply_template"
    /\ IF original_data.none
       THEN /\ ret' = "False"
            /\ UNCHANGED session
       ELSE /\ columns_to_delete' =
                   MatchTemplate(template_columns, original_data.cols, <<>>, 1)
            /\ ret' = "True"
            /\ UNCHANGED <<original_data, processed_data, columns_to_recalculate,
                           processing_history, cross_sheet_data>>

(***************************************************************************)
(* set_columns_to_recalculate(columns)                                     *)
(***************************************************************************)
\* the lists of names a caller asks to recalculate
RecalculateRequests == {<<>>, <<"je", "bz", "zz">>}

\* a slip: the request is stored as it came
set_columns_to_recalculate_Unfiltered(columns) ==
    /\ op' = "set_columns_to_recalculate"
    /\ IF original_data.none
       THEN /\ ret' = "False"
            /\ UNCHANGED session
       ELSE /\ columns_to_recalculate' = columns
            /\ ret' = "True"
            /\ UNCHANGED <<original_data, processed_data, columns_to_delete,
                           processing_history, cross_sheet_data>>

set_columns_to_recalculate(columns) ==
    /\ op' = "set_columns_to_recalculate"
    /\ IF original_data.none
       THEN /\ ret' = "False"
            /\ UNCHANGED session
       ELSE /\ columns_to_recalculate' =
                   SelectSeq(columns, LAMBDA col :
                       In(col, original_data.cols)
                       /\ is_numeric_dtype(original_data, col))
            /\ ret' = "True"
            /\ UNCHANGED <<original_data, processed_data, columns_to_delete,
                           processing_history, cross_sheet_data>>

(***************************************************************************)
(* load_cross_sheet_data(sheet_data)                                       *)
(***************************************************************************)
\* the detail sheet: invoice 1 twice, invoice 2 without a goods name, and
\* amounts that are no amount of the invoice sheet
SheetDetail ==
    ReadFrame(<<"fphm", "hwmc", "sl", "je">>,
              << <<Txt("1"), Txt("pen"), Num(1), Num(3)>>,
                 <<Txt("1"), Txt("ink"), Num(2), Num(4)>>,
                 <<Txt("2"), NaN, Num(1), Num(5)>> >>)

\* the workbooks: sheet "jcxx" is the invoice sheet, sheet "hz" the detail
\* sheet, sheet "qt" a sheet without an invoice-number column
Workbooks ==
    {[jcxx |-> SheetInvoice, hz |-> SheetDetail, qt |-> SheetOther]}

load_cross_sheet_data(sheet_data) ==
    /\ op' = "load_cross_sheet_data"
    /\ cross_sheet_data' = sheet_data
    /\ ret' = "True"
    /\ UNCHANGED <<original_data, processed_data, columns_to_delete,
                   columns_to_recalculate, processing_history>>

(***************************************************************************)
(* extract_goods_names_by_invoice                                          *)
(***************************************************************************)
\* the join key: the one passed (a one-element list; <<>> is None), or the
\* one chosen from the invoice sheet's columns; <<>> when there is none
ChooseInvoiceColumn(invoice_df, invoice_column) ==
    IF invoice_column # <<>> THEN invoice_column
    ELSE IF In("sdfphm", invoice_df.cols) THEN <<"sdfphm">>
    ELSE IF In("fphm", invoice_df.cols) THEN <<"fphm">>
    ELSE <<>>

\* series.dropna().unique(): the non-NaN cells in order of first appearance
RECURSIVE Unique(_, _, _)
Unique(df, col, i) ==
    IF i = 0 THEN <<>>
    ELSE LET before == Unique(df, col, i - 1)
             c == df.rows[i][col]
         IN  IF notna(c) /\ ~In(c, before) THEN Append(before, c) ELSE before

\* a slip: of the matching rows only the last is kept
MatchingRows_LastOnly(detail_df, col, value) ==
    LET matching == {i \in 1..Len(detail_df.rows) :
                        notna(value) /\ detail_df.rows[i][col] = value}
    IN  {i \in matching : \A j \in matching : j <= i}

\* detail_df[detail_df[col] == value]: the positions of the matching rows
MatchingRows(detail_df, col, value) ==
    {i \in 1..Len(detail_df.rows) : notna(value) /\ detail_df.rows[i][col] = value}

\* the mapping after the invoice numbers from position k on
RECURSIVE BuildMap(_, _, _, _, _, _, _)
BuildMap(invoice_df, detail_df, key, goods_column, invoice_numbers, map, k) ==
    IF k > Len(invoice_numbers) THEN map
    ELSE LET invoice_num == invoice_numbers[k]
             matching_rows == MatchingRows(detail_df, key, invoice_num)
             first == CHOOSE i \in matching_rows : \A j \in matching_rows : i <= j
             first_goods_name == detail_df.rows[first][goods_column]
             name == Strip(Str(first_goods_name, detail_df.dtype[goods_column]))
             num == Str(invoice_num, invoice_df.dtype[key])
             next == IF matching_rows # {} /\ notna(first_goods_name) /\ name # ""
                     THEN [x \in DOMAIN map \cup {num} |->
                              IF x = num THEN name ELSE map[x]]
                     ELSE map
         IN  BuildMap(invoice_df, detail_df, key, goods_column,
                      invoice_numbers, next, k + 1)

\* the mapping from invoice number to goods name; <<>> is the empty dict
extract_goods_names_by_invoice(sheets, invoice_sheet_name, detail_sheet_name, invoice_column, goods_column) ==
    IF DOMAIN sheets = {} THEN <<>>
    ELSE IF invoice_sheet_name \notin DOMAIN sheets THEN <<>>
    ELSE IF detail_sheet_name \notin DOMAIN sheets THEN <<>>
    ELSE LET invoice_df == sheets[invoice_sheet_name]
             detail_df == sheets[detail_sheet_name]
             chosen == ChooseInvoiceColumn(invoice_df, invoice_column)
         IN  IF chosen = <<>> THEN <<>>
             ELSE IF ~In(chosen[1], invoice_df.cols) THEN <<>>
             ELSE IF ~In(chosen[1], detail_df.cols) THEN <<>>
             ELSE IF ~In(goods_column, detail_df.cols) THEN <<>>
             ELSE BuildMap(invoice_df, detail_df, chosen[1], goods_column,
                           Unique(invoice_df, chosen[1], Len(invoice_df.rows)),
                           <<>>, 1)

(***************************************************************************)
(* add_goods_names_to_invoice_sheet                                        *)
(***************************************************************************)
\* the invoice-number columns the sheet has, as the appending step lists
\* them
available_invoice_columns(invoice_df) ==
    (IF In("fphm", invoice_df.cols) THEN <<"fphm">> ELSE <<>>)
    \o (IF In("sdfphm", invoice_df.cols) THEN <<"sdfphm">> ELSE <<>>)

\* a slip: the appending step prefers the invoice number
ChooseInvoiceColumnToAppend_InvoiceNumberFirst(invoice_df, invoice_column) ==
    IF invoice_column # <<>> THEN invoice_column
    ELSE IF available_invoice_columns(invoice_df) = <<>> THEN <<>>
    ELSE <<available_invoice_columns(invoice_df)[1]>>

\* the join key of the appending step: the one passed, or the one it
\* chooses from the invoice sheet's columns; <<>> when there is none
ChooseInvoiceColumnToAppend(invoice_df, invoice_column) ==
    IF invoice_column # <<>> THEN invoice_column
    ELSE IF available_invoice_columns(invoice_df) = <<>> THEN <<>>
    ELSE IF In("sdfphm", available_invoice_columns(invoice_df)) THEN <<"sdfphm">>
    ELSE <<"fphm">>

\* the new cell of row i
GoodsName(invoice_df, key, map, i) ==
    LET c == invoice_df.rows[i][key]
        invoice_num == IF notna(c) THEN Str(c, RowDtype(invoice_df, key)) ELSE ""
    IN  IF invoice_num \in DOMAIN map THEN Txt(map[invoice_num]) ELSE Txt("")

\* df[name] = values: a column of that name is overwritten where it stands,
\* any other name is appended as the last column
SetColumn(df, name, values) ==
    [none  |-> FALSE,
     cols  |-> IF In(name, df.cols) THEN df.cols ELSE Append(df.cols, name),
     dtype |-> [c \in Range(df.cols) \cup {name} |->
                   IF c = name THEN "object" ELSE df.dtype[c]],
     rows  |-> [i \in 1..Len(df.rows) |->
                   [c \in Range(df.cols) \cup {name} |->
                       IF c = name THEN values[i] ELSE df.rows[i][c]]]]

\* a slip: the row counts are not compared
ReplaceIfSameLength_Always(current, invoice_df) ==
    IF ~current.none THEN invoice_df ELSE current

\* the table a field holds after the call: the invoice sheet, when the field
\* holds a table of as many rows
ReplaceIfSameLength(current, invoice_df) ==
    IF ~current.none /\ Len(current.rows) = Len(invoice_df.rows)
    THEN invoice_df
    ELSE current

\* what the call returns and the three fields it assigns
add_goods_names_to_invoice_sheet(sheets, original, processed, invoice_sheet_name, map, invoice_column, new_column_name) ==
    LET unchanged == [ok |-> FALSE, sheets |-> sheets,
                      original |-> original, processed |-> processed]
    IN  IF DOMAIN sheets = {} \/ invoice_sheet_name \notin DOMAIN sheets
        THEN unchanged
        ELSE LET df == sheets[invoice_sheet_name]
                 chosen == ChooseInvoiceColumnToAppend(df, invoice_column)
             IN  IF chosen = <<>> THEN unchanged
                 ELSE IF ~In(chosen[1], df.cols) THEN unchanged
                 ELSE LET goods_names_list ==
                              [i \in 1..Len(df.rows) |->
                                  GoodsName(df, chosen[1], map, i)]
                          invoice_df == SetColumn(df, new_column_name,
                                                  goods_names_list)
                      IN  [ok |-> TRUE,
                           sheets |-> [sheets EXCEPT ![invoice_sheet_name] = invoice_df],
                           original |-> ReplaceIfSameLength(original, invoice_df),
                           processed |-> ReplaceIfSameLength(processed, invoice_df)]

(***************************************************************************)
(* process_cross_sheet_association                                         *)
(***************************************************************************)
\* a call: invoice_column <<>> is None
Call(i, d, k, g, n) ==
    [invoice_sheet_name |-> i, detail_sheet_name |-> d, invoice_column |-> k,
     goods_column |-> g, new_column_name |-> n]

\* the calls a caller makes: sheet "zz" and column "zz" exist nowhere
AssociationCalls ==
    {Call("jcxx", "hz", <<>>, "hwmc", "hwmc"),
     Call("zz", "hz", <<>>, "hwmc", "hwmc"),
     Call("jcxx", "hz", <<"je">>, "hwmc", "hwmc"),
     Call("jcxx", "hz", <<>>, "zz", "hwmc"),
     Call("qt", "hz", <<>>, "hwmc", "hwmc")}

\* a slip: the sheet is extended before the empty mapping is reported
process_cross_sheet_association_ChecksLate(call) ==
    LET invoice_goods_map ==
            extract_goods_names_by_invoice(cross_sheet_data,
                call.invoice_sheet_name, call.detail_sheet_name,
                call.invoice_column, call.goods_column)
        added ==
            add_goods_names_to_invoice_sheet(cross_sheet_data, original_data,
                processed_data, call.invoice_sheet_name, invoice_goods_map,
                call.invoice_column, call.new_column_name)
    IN  /\ op' = "process_cross_sheet_association"
        /\ cross_sheet_data' = added.sheets
        /\ original_data' = added.original
        /\ processed_data' = added.processed
        /\ IF DOMAIN invoice_goods_map = {}
           THEN /\ ret' = "False"
                /\ UNCHANGED processing_history
           ELSE /\ Len(processing_history) < MaxHistory
                /\ processing_history' =
                       AppendRecord(processing_history,
                           [operation |-> "cross_sheet_association",
                            invoice_sheet |-> call.invoice_sheet_name,
                            detail_sheet |-> call.detail_sheet_name,
                            matched_invoices |->
                                Cardinality(DOMAIN invoice_goods_map)])
                /\ ret' = "True"
        /\ UNCHANGED <<columns_to_delete, columns_to_recalculate>>

process_cross_sheet_association(call) ==
    LET invoice_goods_map ==
            extract_goods_names_by_invoice(cross_sheet_data,
                call.invoice_sheet_name, call.detail_sheet_name,
                call.invoice_column, call.goods_column)
        added ==
            add_goods_names_to_invoice_sheet(cross_sheet_data, original_data,
                processed_data, call.invoice_sheet_name, invoice_goods_map,
                call.invoice_column, call.new_column_name)
    IN  /\ op' = "process_cross_sheet_association"
        /\ IF DOMAIN invoice_goods_map = {}
           THEN /\ ret' = "False"
                /\ UNCHANGED session
           ELSE /\ added.ok => Len(processing_history) < MaxHistory
                /\ cross_sheet_data' = added.sheets
                /\ original_data' = added.original
                /\ processed_data' = added.processed
                /\ processing_history' =
                       IF added.ok
                       THEN AppendRecord(processing_history,
                                [operation |-> "cross_sheet_association",
                                 invoice_sheet |-> call.invoice_sheet_name,
                                 detail_sheet |-> call.detail_sheet_name,
                                 matched_invoices |->
                                     Cardinality(DOMAIN invoice_goods_map)])
                       ELSE processing_history
                /\ ret' = IF added.ok THEN "True" ELSE "False"
                /\ UNCHANGED <<columns_to_delete, columns_to_recalculate>>

Next ==
    \/ \E data \in Datasets : load_data(data) /\ UNCHANGED batch
    \/ \E columns \in DeleteRequests : set_columns_to_delete(columns) /\ UNCHANGED batch
    \/ \E columns \in RecalculateRequests : set_columns_to_recalculate(columns) /\ UNCHANGED batch
    \/ \E template_columns \in TemplateRequests : apply_template(template_columns) /\ UNCHANGED batch
    \/ process_data /\ UNCHANGED batch
    \/ reset /\ UNCHANGED batch
    \/ \E sheet_data \in Workbooks : load_cross_sheet_data(sheet_data) /\ UNCHANGED batch
    \/ \E call \in AssociationCalls : process_cross_sheet_association(call) /\ UNCHANGED batch

Spec == Init /\ [][Next]_vars

(***************************************************************************)
(* Sessions that set plans and process: a sheet whose first keyword row is *)
(* not its last, a sheet without a keyword, and requests that name absent  *)
(* columns, text columns and columns out of their order.                   *)
(***************************************************************************)
\* row 2 shows " Total " in its last column and row 3 "heji" in its first;
\* the totals of both rows are stale and column se has an empty cell
SheetTotals ==
    ReadFrame(<<"fphm", "je", "se", "bz">>,
              << <<Txt("1"), Num(1), NaN, Txt("x")>>,
                 <<Txt("2"), Num(2), Num(7), Txt(" Total ")>>,
                 <<Txt("heji"), Num(9), Num(9), NaN>> >>)

\* no cell shows a keyword, and column je holds text
SheetNoSummary ==
    ReadFrame(<<"gfmc", "je", "se">>,
              << <<Txt("a"), Txt("n/a"), Num(5)>>,
                 <<Txt("b"), Txt("sum"), NaN>> >>)

\* a sheet whose column je holds text, with a summary row
SheetLabels ==
    ReadFrame(<<"fphm", "je">>,
              << <<Txt("1"), Txt("n/a")>>,
                 <<Txt("Sum"), Txt("9")>> >>)

PlanDatasets == {SheetTotals, SheetNoSummary, SheetLabels}

PlanDeleteRequests == {<<"zz">>, <<"se", "zz", "fphm">>, <<"bz">>}

PlanRecalculateRequests == {<<>>, <<"zz", "je">>, <<"je", "se", "bz", "zz">>}

NextPlans ==
    \/ \E data \in PlanDatasets : load_data(data) /\ UNCHANGED batch
    \/ \E columns \in PlanDeleteRequests : set_columns_to_delete(columns) /\ UNCHANGED batch
    \/ \E columns \in PlanRecalculateRequests : set_columns_to_recalculate(columns) /\ UNCHANGED batch
    \/ process_data /\ UNCHANGED batch

SpecPlans == Init /\ [][NextPlans]_vars

(***************************************************************************)
(* Sessions that set the plans, the deletion plan by request or by         *)
(* template: every list of at most MaxTemplate template names, over a      *)
(* sheet with the two invoice-number columns and a sheet with one.         *)
(***************************************************************************)
\* a sheet with the digital invoice number before the invoice number
SheetDigital ==
    ReadFrame(<<"sdfphm", "fphm", "je">>,
              << <<Txt("d1"), Txt("1"), Num(1)>>,
                 <<Txt("d9"), Txt("9"), Num(2)>> >>)

TemplateDatasets == {SheetDigital, SheetInvoice}

\* names that are a column, a part of a column, a column and more, and a
\* column in another case, which is no column
TemplateNames == {"fphm", "phm", "jehj", "Je"}

MaxTemplate == 2

Templates ==
    UNION {[1..n -> TemplateNames] : n \in 0..MaxTemplate}

NextTemplate ==
    \/ \E data \in TemplateDatasets : load_data(data) /\ UNCHANGED batch
    \/ \E template_columns \in Templates : apply_template(template_columns) /\ UNCHANGED batch
    \/ \E columns \in DeleteRequests : set_columns_to_delete(columns) /\ UNCHANGED batch
    \/ \E columns \in RecalculateRequests : set_columns_to_recalculate(columns) /\ UNCHANGED batch

SpecTemplate == Init /\ [][NextTemplate]_vars

(***************************************************************************)
(* Sessions that associate sheets: a workbook with an invoice sheet, a     *)
(* sheet with both invoice-number columns, a sheet with none and a detail  *)
(* sheet, and calls that pass a join key or none and name a new column or  *)
(* a column the invoice sheet has.                                         *)
(***************************************************************************)
\* the detail sheet: invoice 1 twice, invoice 2 first without a goods name,
\* the row "heji" first with a blank one; no row for invoice 9
SheetLedger ==
    ReadFrame(<<"fphm", "sdfphm", "hwmc">>,
              << <<Txt("1"), Txt("d1"), Txt("pen")>>,
                 <<Txt("1"), Txt("d1"), Txt("ink")>>,
                 <<Txt("2"), Txt("d2"), NaN>>,
                 <<Txt("2"), Txt("d2"), Txt("cup")>>,
                 <<Txt("heji"), Txt("dh"), Txt(" ")>>,
                 <<Txt("heji"), Txt("dh"), Txt("all")>> >>)

LedgerWorkbooks ==
    {[jcxx |-> SheetInvoice, sd |-> SheetDigital, hz |-> SheetLedger,
      qt |-> SheetOther]}

LedgerDatasets == {SheetInvoice, SheetDigital}

LedgerCalls ==
    {Call("jcxx", "hz", <<>>, "hwmc", "hwmc"),
     Call("sd", "hz", <<>>, "hwmc", "hwmc"),
     Call("sd", "hz", <<"fphm">>, "hwmc", "mc"),
     Call("qt", "hz", <<>>, "hwmc", "hwmc"),
     Call("jcxx", "hz", <<>>, "hwmc", "fphm"),
     Call("jcxx", "hz", <<>>, "hwmc", "je")}

NextAssociation ==
    \/ \E data \in LedgerDatasets : load_data(data) /\ UNCHANGED batch
    \/ \E sheet_data \in LedgerWorkbooks : load_cross_sheet_data(sheet_data) /\ UNCHANGED batch
    \/ \E call \in LedgerCalls : process_cross_sheet_association(call) /\ UNCHANGED batch

SpecAssociation == Init /\ [][NextAssociation]_vars

(***************************************************************************)
(* get_column_sum(column_name): the statistics of a column of the          *)
(* processed dataset.  The quotient col_sum / valid_count is kept as the   *)
(* pair of its numerator and its denominator.                              *)
(***************************************************************************)
\* col_data.isnull().sum()
null_count(df, col) ==
    Cardinality({i \in 1..Len(df.rows) : ~notna(df.rows[i][col])})

\* a slip: the sum is divided by the number of rows
average_OverAllRows(col_sum, valid_count, total_count) ==
    [num |-> col_sum, den |-> total_count]

\* col_sum / valid_count
average(col_sum, valid_count, total_count) ==
    [num |-> col_sum, den |-> valid_count]

\* the failure dict
failure ==
    [success |-> FALSE, sum |-> 0, total_count |-> 0, valid_count |-> 0,
     null_count |-> 0, average |-> [num |-> 0, den |-> 0]]

\* the dict get_column_sum returns for target_data
column_sum_result(column_name, target_data) ==
    IF target_data.none THEN failure
    ELSE IF ~In(column_name, target_data.cols) THEN failure
    ELSE IF ~is_numeric_dtype(target_data, column_name) THEN failure
    ELSE LET total_count == Len(target_data.rows)
             nulls == null_count(target_data, column_name)
             valid_count == total_count - nulls
             col_sum == SumFrom(target_data, column_name, 0, 1)
         IN  IF valid_count = 0 THEN failure
             ELSE [success |-> TRUE, sum |-> col_sum,
                   total_count |-> total_count, valid_count |-> valid_count,
                   null_count |-> nulls,
                   average |-> average(col_sum, valid_count, total_count)]

get_column_sum(column_name) ==
    /\ op' = "get_column_sum"
    /\ ret' = IF column_sum_result(column_name, processed_data).success
              THEN "True" ELSE "False"
    /\ UNCHANGED session

\* amounts 4 and 3 around an empty cell, and a column without any value
SheetSparse ==
    ReadFrame(<<"mc", "je", "kb">>,
              << <<Txt("a"), Num(4), NaN>>,
                 <<Txt("b"), NaN, NaN>>,
                 <<Txt("c"), Num(3), NaN>> >>)

SumDatasets == {SheetSparse, SheetTotals}

\* a numeric column, a text column, a column without values, no column
SumColumns == {"je", "se", "mc", "kb", "zz"}

NextSums ==
    \/ \E data \in SumDatasets : load_data(data) /\ UNCHANGED batch
    \/ \E columns \in PlanDeleteRequests : set_columns_to_delete(columns) /\ UNCHANGED batch
    \/ \E columns \in PlanRecalculateRequests : set_columns_to_recalculate(columns) /\ UNCHANGED batch
    \/ process_data /\ UNCHANGED batch
    \/ \E column_name \in SumColumns : get_column_sum(column_name) /\ UNCHANGED batch

SpecSums == Init /\ [][NextSums]_vars

(***************************************************************************)
(* _do_batch_processing of the window (src/src/ui/main_window.py): every   *)
(* file of batch_files goes through a reader, a session and a file handler *)
(* made for it.  A file is its name, whether load_file opens it, its       *)
(* worksheets in order and whether the save succeeds.                      *)
(***************************************************************************)
File(file_name, loads, worksheets, saves) ==
    [file_name |-> file_name, loads |-> loads, worksheets |-> worksheets,
     saves |-> saves]

Worksheet(name, data) == [name |-> name, data |-> data]

\* the worksheet whose name contains "jcxx", else the first one, as a list of
\* one worksheet; the empty list when the workbook has none
target_worksheet(worksheets) ==
    LET named == SelectSeq(worksheets, LAMBDA ws : StrIn("jcxx", ws.name))
    IN  IF named # <<>> THEN <<named[1]>>
        ELSE IF worksheets # <<>> THEN <<worksheets[1]>>
        ELSE <<>>

\* calculate_all_numeric_sums(data): the statistics of every numeric column
\* that holds a value
calculate_all_numeric_sums(data) ==
    IF data.none \/ empty(data)
    THEN [success |-> FALSE, sums |-> [c \in {} |-> failure]]
    ELSE [success |-> TRUE,
          sums |-> [c \in {c \in Range(data.cols) :
                               column_sum_result(c, data).success}
                       |-> column_sum_result(c, data)]]

\* DataProcessor(): the fields of a session just made
DataProcessor ==
    [original_data |-> None, processed_data |-> None,
     columns_to_delete |-> <<>>, columns_to_recalculate |-> <<>>,
     processing_history |-> <<>>]

\* what the loop body does with one file: the step that failed or
\* "processed", the statistics it added to batch_stats and the table it saved
\* (each a list of at most one element)
process_file(file, selected_columns_to_delete) ==
    LET no == [status |-> "", stats |-> <<>>, output |-> <<>>]
        sheet == target_worksheet(file.worksheets)
        full_data == sheet[1].data
        temp_processor == DataProcessor
        loaded == [temp_processor EXCEPT !.original_data = full_data,
                                         !.processed_data = full_data]
        planned == [loaded EXCEPT !.columns_to_delete =
                        valid_columns(selected_columns_to_delete,
                                      loaded.original_data.cols)]
        plan == planned.columns_to_delete
        processed_data_ ==
            RecalculationStep(DeletionStep(planned.original_data, plan),
                              planned.columns_to_recalculate)
        stats_result == calculate_all_numeric_sums(processed_data_)
        stats == <<[file_name |-> file.file_name, success |-> stats_result.success,
                    sums |-> stats_result.sums]>>
    IN  IF ~file.loads THEN [no EXCEPT !.status = "load_file"]
        ELSE IF sheet = <<>> THEN [no EXCEPT !.status = "worksheet"]
        ELSE IF empty(full_data) THEN [no EXCEPT !.status = "empty"]
        ELSE IF plan # <<>> /\ ~validate_deletion(planned.original_data, plan)
        THEN [no EXCEPT !.status = "process_data"]
        ELSE IF ~file.saves
        THEN [status |-> "save", stats |-> stats, output |-> <<>>]
        ELSE [status |-> "processed", stats |-> stats,
              output |-> <<[file_name |-> file.file_name,
                            data |-> processed_data_]>>]

\* a slip: the file is counted as processed before it is saved
after_file_CountedBeforeSave(acc, file, result) ==
    [processed_files |-> acc.processed_files
                            + (IF result.stats # <<>> THEN 1 ELSE 0),
     failed_files |-> IF result.status = "processed" THEN acc.failed_files
                      ELSE Append(acc.failed_files,
                                  [file_name |-> file.file_name,
                                   step |-> result.status]),
     batch_stats |-> acc.batch_stats \o result.stats,
     saved |-> acc.saved \o result.output]

\* the counters and lists of the loop after one file
after_file(acc, file, result) ==
    [processed_files |-> acc.processed_files
                            + (IF result.status = "processed" THEN 1 ELSE 0),
     failed_files |-> IF result.status = "processed" THEN acc.failed_files
                      ELSE Append(acc.failed_files,
                                  [file_name |-> file.file_name,
                                   step |-> result.status]),
     batch_stats |-> acc.batch_stats \o result.stats,
     saved |-> acc.saved \o result.output]

\* the loop over batch_files from position i on
RECURSIVE batch_loop(_, _, _, _)
batch_loop(batch_files, selected_columns_to_delete, i, acc) ==
    IF i > Len(batch_files) THEN acc
    ELSE batch_loop(batch_files, selected_columns_to_delete, i + 1,
             after_file(acc, batch_files[i],
                 process_file(batch_files[i], selected_columns_to_delete)))

\* the counters and lists the loop ends with
batch_result(batch_files, selected_columns_to_delete) ==
    batch_loop(batch_files, selected_columns_to_delete, 1,
               [processed_files |-> 0, failed_files |-> <<>>,
                batch_stats |-> <<>>, saved |-> <<>>])

_do_batch_processing(batch_files, selected_columns_to_delete) ==
    /\ op' = "_do_batch_processing"
    /\ ret' = "None"
    /\ LET result == batch_result(batch_files, selected_columns_to_delete)
       IN  batch' = [batch_files |-> batch_files,
                     selected_columns_to_delete |-> selected_columns_to_delete,
                     processed_files |-> result.processed_files,
                     failed_files |-> result.failed_files,
                     batch_stats |-> result.batch_stats,
                     saved |-> result.saved]
    /\ UNCHANGED session

MaxBatch == 3

\* a file that does not open, an invoice workbook whose invoice sheet comes
\* second, after a sheet without rows, and a workbook without an invoice
\* sheet that cannot be saved
FileBroken == File("broken", FALSE, <<>>, TRUE)
FileInvoice ==
    File("invoice", TRUE,
         <<Worksheet("qt", SheetEmpty), Worksheet("fpjcxx", SheetInvoice)>>, TRUE)
FileOther == File("other", TRUE, <<Worksheet("qt", SheetOther)>>, FALSE)

BatchFiles == {FileBroken, FileInvoice, FileOther}

Batches == UNION {[1..n -> BatchFiles] : n \in 0..MaxBatch}

\* a selection that names one column of the invoice sheet, one that names
\* every column of the other sheet, one that names every column of the
\* invoice sheet
BatchSelections ==
    {<<"bz", "zz">>, <<"gfmc", "se", "bz">>, <<"fphm", "je", "bz">>}

NextBatch ==
    \E batch_files \in Batches, selected_columns_to_delete \in BatchSelections :
        _do_batch_processing(batch_files, selected_columns_to_delete)

SpecBatch == Init /\ [][NextBatch]_vars

(***************************************************************************)
(* Workbooks whose two sheets store the invoice number differently: as a   *)
(* number in the primary sheet and as text in the detail sheet, and as     *)
(* text with and without a blank around it.                                *)
(***************************************************************************)
\* the invoice sheet with its invoice numbers stored as numbers
SheetNumbered ==
    ReadFrame(<<"fphm", "bz">>,
              << <<Num(1), Txt("x")>>,
                 <<Num(2), Txt("y")>> >>)

\* a detail sheet whose first invoice number carries a trailing blank
SheetSpaced ==
    ReadFrame(<<"fphm", "hwmc">>,
              << <<Txt("1 "), Txt("pen")>>,
                 <<Txt("2"), Txt("cup")>> >>)

\* an invoice sheet of numbers only: the invoice number and an amount column
\* with an empty cell
SheetAmounts ==
    ReadFrame(<<"fphm", "je">>,
              << <<Num(1), Num(5)>>,
                 <<Num(2), NaN>> >>)

\* a detail sheet with its invoice numbers stored as numbers
SheetCounted ==
    ReadFrame(<<"fphm", "hwmc">>,
              << <<Num(1), Txt("pen")>>,
                 <<Num(2), Txt("cup")>> >>)

KeyWorkbooks ==
    {[jcxx |-> SheetNumbered, hz |-> SheetLedger],
     [jcxx |-> SheetInvoice, hz |-> SheetSpaced],
     [jcxx |-> SheetAmounts, hz |-> SheetCounted]}

KeyDatasets == {SheetNumbered, SheetInvoice, SheetAmounts}

KeyCalls ==
    {Call("jcxx", "hz", <<>>, "hwmc", "hwmc"),
     Call("jcxx", "hz", <<"fphm">>, "hwmc", "mc")}

NextKeys ==
    \/ \E data \in KeyDatasets : load_data(data) /\ UNCHANGED batch
    \/ \E sheet_data \in KeyWorkbooks : load_cross_sheet_data(sheet_data) /\ UNCHANGED batch
    \/ \E call \in KeyCalls : process_cross_sheet_association(call) /\ UNCHANGED batch

SpecKeys == Init /\ [][NextKeys]_vars

(***************************************************************************)
(* get_processing_summary(): the summary of a session.                     *)
(***************************************************************************)
\* the dict get_processing_summary returns; the empty dict before any data
\* is loaded is the record with loaded FALSE
processing_summary(original, processed, plan, history) ==
    IF original.none
    THEN [loaded |-> FALSE, original_columns_count |-> 0,
          original_rows_count |-> 0, deleted_columns_count |-> 0,
          deleted_columns |-> <<>>, remaining_columns_count |-> 0,
          remaining_columns |-> <<>>, data_rows_count |-> 0,
          processing_history |-> <<>>]
    ELSE [loaded |-> TRUE,
          original_columns_count |-> Len(original.cols),
          original_rows_count |-> Len(original.rows),
          deleted_columns_count |-> Len(plan),
          deleted_columns |-> plan,
          remaining_columns_count |->
              IF ~processed.none THEN Len(processed.cols) ELSE 0,
          remaining_columns |->
              IF ~processed.none THEN processed.cols ELSE <<>>,
          data_rows_count |->
              IF ~processed.none THEN Len(processed.rows) ELSE 0,
          processing_history |-> history]

get_processing_summary ==
    /\ op' = "get_processing_summary"
    /\ ret' = IF processing_summary(original_data, processed_data,
                     columns_to_delete, processing_history).loaded
              THEN "True" ELSE "False"
    /\ UNCHANGED session

\* requests of one name, of a name given twice, and of names of two sheets
SummaryDeleteRequests ==
    {<<"bz">>, <<"bz", "bz">>, <<"se", "zz", "fphm">>}

NextSummary ==
    \/ \E data \in PlanDatasets : load_data(data) /\ UNCHANGED batch
    \/ \E columns \in SummaryDeleteRequests : set_columns_to_delete(columns) /\ UNCHANGED batch
    \/ process_data /\ UNCHANGED batch
    \/ get_processing_summary /\ UNCHANGED batch

SpecSummary == Init /\ [][NextSummary]_vars

(***************************************************************************)
(* Deletion requests that take away the column in which a summary row      *)
(* shows its keyword.                                                      *)
(***************************************************************************)
RelocateDatasets == {SheetTotals, SheetInvoice, SheetLabels}

\* the column of the first keyword of SheetTotals, the keyword columns of
\* both its keyword rows, the keyword column of the other two sheets, and a
\* column without a keyword
RelocateDeleteRequests ==
    {<<"bz">>, <<"fphm", "bz">>, <<"fphm">>, <<"se">>}

RelocateRecalculateRequests == {<<>>, <<"je", "se">>}

NextRelocate ==
    \/ \E data \in RelocateDatasets : load_data(data) /\ UNCHANGED batch
    \/ \E columns \in RelocateDeleteRequests : set_columns_to_delete(columns) /\ UNCHANGED batch
    \/ \E columns \in RelocateRecalculateRequests : set_columns_to_recalculate(columns) /\ UNCHANGED batch
    \/ process_data /\ UNCHANGED batch

SpecRelocate == Init /\ [][NextRelocate]_vars

(***************************************************************************)
(* The properties checked.                                                 *)
(***************************************************************************)
Columns(df) == Range(df.cols)
Plan == Range(columns_to_delete)
Loaded == ~original_data.none

\* s is a prefix of t
IsPrefix(s, t) == Len(s) <= Len(t) /\ SubSeq(t, 1, Len(s)) = s

\* the names of cols keep the order they have in the list of
InOrderOf(cols, of) ==
    \A i, j \in 1..Len(cols) : i < j => IndexOf(cols[i], of) < IndexOf(cols[j], of)

\* C1: when the stored deletion plan covers every column of the loaded
\* dataset, validate_deletion reports failure and process_data returns
\* False and changes no field of the session.
C1_AllColumnsRejectedBeforeMutation ==
    [][(op' = "process_data" /\ Loaded /\ Columns(original_data) # {}
        /\ Columns(original_data) \subseteq Plan)
       => (/\ ~validate_deletion(original_data, columns_to_delete)
           /\ ret' = "False"
           /\ UNCHANGED session)]_vars

\* process_data was called with a plan that names every column, after an
\* earlier successful run left a history
C1_Witness ==
    /\ op = "process_data" /\ ret = "False" /\ Loaded
    /\ Columns(original_data) \subseteq Plan
    /\ processing_history # <<>>

\* C2: with a plan that is a strict subset of the columns and no
\* recalculation plan, a successful process_data leaves the columns not in
\* the plan, in the original order, over the same rows with the same cells.
C2_DeletionKeepsTheOtherColumns ==
    [][(op' = "process_data" /\ ret' = "True"
        /\ columns_to_recalculate = <<>>
        /\ Plan \subseteq Columns(original_data) /\ Plan # Columns(original_data))
       => (/\ Columns(processed_data') = Columns(original_data) \ Plan
           /\ Len(processed_data'.cols) =
                  Len(original_data.cols) - Cardinality(Plan)
           /\ InOrderOf(processed_data'.cols, original_data.cols)
           /\ Len(processed_data'.rows) = Len(original_data.rows)
           /\ \A i \in 1..Len(original_data.rows) :
                  /\ DOMAIN processed_data'.rows[i] = Columns(original_data) \ Plan
                  /\ \A c \in Columns(original_data) \ Plan :
                         processed_data'.rows[i][c] = original_data.rows[i][c])]_vars

\* process_data deleted a column and kept others
C2_Witness ==
    /\ op = "process_data" /\ ret = "True"
    /\ columns_to_recalculate = <<>>
    /\ Plan # {} /\ Plan \subseteq Columns(original_data)
    /\ Len(processed_data.cols) < Len(original_data.cols)

\* C3, as claimed: after load_data no operation changes the original dataset.
C3_OriginalNeverMutated ==
    [][op' # "load_data" => original_data' = original_data]_vars

\* C3, amended: only load_data and a successful association replace the
\* original dataset, the association only by the invoice sheet it has just
\* extended and only when that sheet has as many rows as the original; every
\* other operation, and a failed association, leave it as it was.
C3_OriginalReplacedOnlyByLoadAndAssociation ==
    [][/\ (op' # "load_data"
           /\ ~(op' = "process_cross_sheet_association" /\ ret' = "True"))
          => original_data' = original_data
       /\ (op' = "process_cross_sheet_association" /\ ret' = "True")
          => \/ original_data' = original_data
             \/ /\ Loaded
                /\ Len(original_data'.rows) = Len(original_data.rows)
                /\ \E name \in DOMAIN cross_sheet_data' :
                       original_data' = cross_sheet_data'[name]]_vars

\* a deletion and an association have run, and the association has put the
\* goods-name column into the original dataset
C3_Witness ==
    /\ op = "process_data" /\ ret = "True" /\ Plan # {}
    /\ In("hwmc", original_data.cols)
    /\ \E k \in 1..Len(processing_history) :
           "operation" \in DOMAIN processing_history[k]

\* C4, as claimed: a successful load_data(D) leaves both copies equal to D
\* and both plans and the history empty.
C4_LoadClearsPlansAndHistory ==
    [][\A data \in Datasets :
          (load_data(data) /\ ret' = "True")
          => (/\ original_data' = data
              /\ processed_data' = data
              /\ columns_to_delete' = <<>>
              /\ columns_to_recalculate' = <<>>
              /\ processing_history' = <<>>)]_vars

\* C5, as claimed: reset makes the processed dataset the original one and
\* empties both plans, so that the process_data that follows leaves the
\* processed dataset equal to the original.
C5_ResetClearsBothPlans ==
    [][/\ (op' = "reset" /\ Loaded)
          => (/\ processed_data' = original_data'
              /\ columns_to_delete' = <<>>
              /\ columns_to_recalculate' = <<>>)
       /\ (op = "reset" /\ Loaded /\ op' = "process_data")
          => (ret' = "True" /\ processed_data' = original_data')]_vars

\* C6, as claimed: the history is empty at the start and every operation
\* but load_data leaves the old history a prefix of the new one.
C6_HistoryAppendOnly ==
    [][op' # "load_data"
       => IsPrefix(processing_history, processing_history')]_vars

\* C6, amended: every operation but load_data and reset leaves the old
\* history a prefix of the new one, longer by one record at most; reset
\* empties the history.
C6_HistoryAppendOnlyUntilReset ==
    [][/\ op' \notin {"load_data", "reset"}
          => /\ IsPrefix(processing_history, processing_history')
             /\ Len(processing_history') <= Len(processing_history) + 1
       /\ op' = "reset" => processing_history' = <<>>]_vars

\* a second record was appended behind a first
C6_Witness ==
    /\ op \in {"process_data", "process_cross_sheet_association"}
    /\ ret = "True"
    /\ Len(processing_history) = 2

\* C7, as claimed: with a dataset loaded, the stored deletion plan is a
\* strict subset of the original dataset's columns.
C7_PlanStrictSubset ==
    Loaded => (Plan \subseteq Columns(original_data)
               /\ Plan # Columns(original_data))

\* C7, amended: right after a successful set_columns_to_delete or
\* apply_template every member of the stored plan is a column of the
\* original dataset (the plan may name all of them), and right after a
\* successful process_data the plan is a strict subset of the columns.
C7_PlanSubsetWhenSetStrictWhenProcessed ==
    /\ (op \in {"set_columns_to_delete", "apply_template"} /\ ret = "True")
       => Plan \subseteq Columns(original_data)
    /\ (op = "process_data" /\ ret = "True")
       => (Plan \subseteq Columns(original_data)
           /\ Plan # Columns(original_data))

\* set_columns_to_delete has stored a plan that names every column
C7_Witness ==
    /\ op = "set_columns_to_delete" /\ ret = "True"
    /\ Plan = Columns(original_data)

\* the last record of a history
Last(history) == history[Len(history)]

\* C8: a successful process_data appends exactly one record, and a second
\* process_data right behind it succeeds too, leaves the same processed
\* dataset and appends a record equal to the first.
C8_ProcessTwiceSameResult ==
    [][/\ (op' = "process_data" /\ ret' = "True")
          => /\ Len(processing_history') = Len(processing_history) + 1
             /\ IsPrefix(processing_history, processing_history')
       /\ (op = "process_data" /\ ret = "True" /\ op' = "process_data")
          => /\ ret' = "True"
             /\ processed_data' = processed_data
             /\ Last(processing_history') = Last(processing_history)]_vars

\* two runs with a deletion plan and a recalculation plan left two equal
\* records and a recomputed total
C8_Witness ==
    /\ op = "process_data" /\ ret = "True"
    /\ Plan # {} /\ columns_to_recalculate # <<>>
    /\ Len(processing_history) = 2
    /\ processing_history[1] = processing_history[2]
    /\ processing_history[2].action = "delete_columns"
    /\ processed_data # DeletionStep(original_data, columns_to_delete)

\* C9: with both plans empty, process_data on a loaded session succeeds,
\* leaves the processed dataset equal to the original and appends one
\* no_deletion record with no deleted column and equal column counts.
C9_ProcessWithoutPlanPassesThrough ==
    [][(op' = "process_data" /\ Loaded
        /\ columns_to_delete = <<>> /\ columns_to_recalculate = <<>>)
       => (/\ ret' = "True"
           /\ processed_data' = original_data
           /\ original_data' = original_data
           /\ Len(processing_history') = Len(processing_history) + 1
           /\ IsPrefix(processing_history, processing_history')
           /\ Last(processing_history').action = "no_deletion"
           /\ Last(processing_history').deleted_columns = <<>>
           /\ Last(processing_history').original_columns_count =
                  Len(original_data.cols)
           /\ Last(processing_history').remaining_columns_count =
                  Len(original_data.cols))]_vars

\* process_data ran with no plan on a session whose processed dataset had
\* been something else
C9_Witness ==
    /\ op = "process_data" /\ ret = "True"
    /\ columns_to_delete = <<>> /\ columns_to_recalculate = <<>>
    /\ Len(processing_history) = 2
    /\ "action" \in DOMAIN processing_history[1]
    /\ processing_history[1].action = "delete_columns"
    /\ processing_history[2].action = "no_deletion"

\* the plan process_data accepts
PlanAccepted ==
    Plan = {} \/ (Plan \subseteq Columns(original_data)
                  /\ Plan # Columns(original_data))

\* C10: a failed association changes no field of the session, and the
\* process_data behind it succeeds whenever the plan is one it accepts and
\* then works on the original dataset the association has left alone.
C10_FailedAssociationChangesNothing ==
    [][/\ (op' = "process_cross_sheet_association" /\ ret' = "False")
          => UNCHANGED session
       /\ (op = "process_cross_sheet_association" /\ ret = "False"
           /\ Loaded /\ op' = "process_data")
          => /\ ret' = "True" <=> PlanAccepted
             /\ ret' = "True"
                => /\ Columns(processed_data') = Columns(original_data) \ Plan
                   /\ Len(processed_data'.rows) = Len(original_data.rows)
                   /\ \A i \in 1..Len(original_data.rows) :
                          \A c \in Columns(processed_data') :
                              ~In(c, columns_to_recalculate)
                              => processed_data'.rows[i][c] =
                                     original_data.rows[i][c]]_vars

\* an association failed on a loaded session that holds sheets with the
\* invoice-number column, a plan and a history
C10_Witness ==
    /\ op = "process_cross_sheet_association" /\ ret = "False"
    /\ Loaded /\ Plan # {} /\ processing_history # <<>>
    /\ DOMAIN cross_sheet_data # {}
    /\ In("fphm", cross_sheet_data["jcxx"].cols)

\* the names of a request that are columns of df, in request order
RECURSIVE KeepPresent(_, _)
KeepPresent(columns, df) ==
    IF columns = <<>> THEN <<>>
    ELSE IF Head(columns) \in Columns(df)
    THEN <<Head(columns)>> \o KeepPresent(Tail(columns), df)
    ELSE KeepPresent(Tail(columns), df)

\* C11: on a loaded session set_columns_to_delete succeeds and stores the
\* requested names that are columns of the dataset, in request order, and
\* touches nothing else; names that are no column are dropped; after a
\* request that leaves the plan empty process_data succeeds and keeps every
\* column.
C11_PlanIsTheRequestFiltered ==
    [][/\ \A columns \in PlanDeleteRequests :
              (set_columns_to_delete(columns) /\ Loaded)
              => /\ ret' = "True"
                 /\ columns_to_delete' = KeepPresent(columns, original_data)
                 /\ UNCHANGED <<original_data, processed_data,
                                columns_to_recalculate, processing_history>>
       /\ (op = "set_columns_to_delete" /\ ret = "True"
           /\ columns_to_delete = <<>> /\ op' = "process_data")
          => /\ ret' = "True"
             /\ processed_data'.cols = original_data.cols
             /\ Last(processing_history').action = "no_deletion"
             /\ Last(processing_history').deleted_columns = <<>>]_vars

\* a request stored in request order, without the name that is no column,
\* was processed, and then a request that left nothing was processed
C11_Witness ==
    /\ op = "process_data" /\ ret = "True" /\ columns_to_delete = <<>>
    /\ Len(processing_history) = 2
    /\ processing_history[1].deleted_columns = <<"se", "fphm">>
    /\ processing_history[2].action = "no_deletion"
    /\ processed_data.cols = <<"fphm", "je", "se", "bz">>

\* the columns process_data keeps
Kept == Columns(original_data) \ Plan

\* the position of the summary row process_data locates, 0 when there is none
Located == identify_summary_row(DeletionStep(original_data, columns_to_delete)).summary_row_index

\* the sum of the numbers that column col holds in the rows of set among
RECURSIVE SumOver(_, _, _)
SumOver(df, col, among) ==
    IF among = {} THEN 0
    ELSE LET i == CHOOSE j \in among : TRUE
         IN  (IF notna(df.rows[i][col]) THEN df.rows[i][col].n ELSE 0)
             + SumOver(df, col, among \ {i})

\* the columns of a recalculation plan that the run recomputes
Recomputed ==
    {c \in Range(columns_to_recalculate) \cap Kept : is_numeric_dtype(original_data, c)}

\* C12: a successful process_data keeps the rows and the kept columns; in
\* the located summary row the cell of every kept numeric column of the
\* recalculation plan becomes the sum of the non-null cells of all other
\* rows, and every other cell keeps the value it has in the original.
C12_RecalculationRewritesOnlySummaryCells ==
    [][(op' = "process_data" /\ ret' = "True")
       => /\ Columns(processed_data') = Kept
          /\ Len(processed_data'.rows) = Len(original_data.rows)
          /\ \A i \in 1..Len(original_data.rows) : \A c \in Kept :
                 processed_data'.rows[i][c] =
                     IF i = Located /\ c \in Recomputed
                     THEN Num(SumOver(original_data, c,
                                      (1..Len(original_data.rows)) \ {Located}))
                     ELSE original_data.rows[i][c]]_vars

\* the total of je was recomputed over the two other rows, one of them a
\* later keyword row, and the stale total of se, not in the plan, was kept
C12_Witness ==
    /\ op = "process_data" /\ ret = "True"
    /\ columns_to_recalculate = <<"je">> /\ columns_to_delete = <<>>
    /\ original_data.rows[2]["je"] = Num(2)
    /\ processed_data.rows[2]["je"] = Num(10)
    /\ processed_data.rows[2]["se"] = Num(7)
    /\ processed_data.rows[3] = original_data.rows[3]

\* the keywords, as the specification lists them
Keywords == {"heji", "zongji", "xiaoji", "Total", "Sum"}

\* the rows of df with a text cell that contains a keyword
KeywordRows(df) ==
    {i \in 1..Len(df.rows) :
        \E c \in Columns(df) : \E k \in Keywords :
            df.rows[i][c].t = "txt" /\ StrIn(k, df.rows[i][c].s)}

\* identify_summary_row(df) names the first keyword row, or none
FirstKeywordRowOf(df) ==
    LET r == identify_summary_row(df)
    IN  /\ r.success
        /\ KeywordRows(df) = {}
           => (~r.has_summary_row /\ r.summary_row_index = 0)
        /\ KeywordRows(df) # {}
           => /\ r.has_summary_row
              /\ r.summary_row_index \in KeywordRows(df)
              /\ \A j \in KeywordRows(df) : r.summary_row_index <= j

\* C13: for the original and for the processed dataset of every state,
\* identify_summary_row names the first row, in row order, with a cell whose
\* text contains a keyword, whatever later rows show, and names no row when
\* no cell contains one.
C13_FirstKeywordRowWins ==
    Loaded => (FirstKeywordRowOf(original_data) /\ FirstKeywordRowOf(processed_data))

\* the processed dataset has two keyword rows and the first one, whose
\* keyword stands in the last column between blanks, is the one located
C13_Witness ==
    /\ op = "process_data" /\ ret = "True"
    /\ KeywordRows(processed_data) = {2, 3}
    /\ identify_summary_row(processed_data).summary_row_index = 2
    /\ processed_data.rows[2]["bz"] = Txt(" Total ")

\* df and the original dataset hold the same cells in the kept columns
EqualsOriginalOnKept(df) ==
    /\ Columns(df) = Kept
    /\ InOrderOf(df.cols, original_data.cols)
    /\ Len(df.rows) = Len(original_data.rows)
    /\ \A i \in 1..Len(original_data.rows) : \A c \in Kept :
           df.rows[i][c] = original_data.rows[i][c]

\* C14: on a dataset without a keyword row, process_data with a non-empty
\* recalculation plan and a deletion plan it accepts succeeds and leaves the
\* original restricted to the kept columns, cell for cell.
C14_NoSummaryRowNothingRecalculated ==
    [][(op' = "process_data" /\ Loaded /\ columns_to_recalculate # <<>>
        /\ KeywordRows(original_data) = {} /\ PlanAccepted)
       => (ret' = "True" /\ EqualsOriginalOnKept(processed_data'))]_vars

\* process_data ran with the numeric column se in the recalculation plan on
\* the sheet without a keyword row
C14_Witness ==
    /\ op = "process_data" /\ ret = "True"
    /\ KeywordRows(original_data) = {}
    /\ In("se", columns_to_recalculate) /\ In("se", processed_data.cols)
    /\ processed_data.rows[2]["se"] = NaN

\* the names of a request that are numeric columns of df, in request order
RECURSIVE KeepNumeric(_, _)
KeepNumeric(columns, df) ==
    IF columns = <<>> THEN <<>>
    ELSE IF Head(columns) \in Columns(df)
            /\ df.dtype[Head(columns)] \in {"int64", "float64"}
    THEN <<Head(columns)>> \o KeepNumeric(Tail(columns), df)
    ELSE KeepNumeric(Tail(columns), df)

\* C15: set_columns_to_recalculate succeeds on a loaded session and stores
\* the requested names that are numeric columns of the dataset; whatever
\* the recalculation plan holds, process_data succeeds exactly when the
\* deletion plan is one it accepts, leaves the original dataset alone and
\* leaves every cell of a kept column that is not a numeric column of the
\* recalculation plan as it is in the original.
C15_SkippedColumnsNeverFail ==
    [][/\ \A columns \in PlanRecalculateRequests :
              (set_columns_to_recalculate(columns) /\ Loaded)
              => /\ ret' = "True"
                 /\ columns_to_recalculate' = KeepNumeric(columns, original_data)
                 /\ UNCHANGED <<original_data, processed_data,
                                columns_to_delete, processing_history>>
       /\ (op' = "process_data" /\ Loaded) => (ret' = "True" <=> PlanAccepted)
       /\ (op' = "process_data" /\ ret' = "True")
          => /\ original_data' = original_data
             /\ Columns(processed_data') = Kept
             /\ \A i \in 1..Len(original_data.rows) : \A c \in Kept \ Recomputed :
                    processed_data'.rows[i][c] = original_data.rows[i][c]]_vars

\* the request named a text column and an absent one, which were not
\* stored; se is in both plans and was deleted, je was recomputed
C15_Witness ==
    /\ op = "process_data" /\ ret = "True"
    /\ columns_to_delete = <<"se", "fphm">>
    /\ columns_to_recalculate = <<"je", "se">>
    /\ original_data.rows[2]["se"] = Num(7)
    /\ processed_data.cols = <<"je", "bz">>
    /\ processed_data.rows[2]["je"] = Num(10)

\* the column a template name selects, as a list of one or no name: the
\* column of that name, or else the first column, in column order, that
\* contains the name or is contained in it
Resolve(name, cols) ==
    LET near == {i \in 1..Len(cols) : StrIn(name, cols[i]) \/ StrIn(cols[i], name)}
    IN  IF name \in Range(cols) THEN <<name>>
        ELSE IF near = {} THEN <<>>
        ELSE <<cols[CHOOSE i \in near : \A j \in near : i <= j]>>

\* the selections of the template names, in template order
RECURSIVE Selections(_, _)
Selections(template, cols) ==
    IF template = <<>> THEN <<>>
    ELSE Resolve(Head(template), cols) \o Selections(Tail(template), cols)

\* s without the repetitions of its elements
RECURSIVE Dedup(_)
Dedup(s) ==
    IF s = <<>> THEN <<>>
    ELSE LET front == Dedup(SubSeq(s, 1, Len(s) - 1))
         IN  IF In(s[Len(s)], front) THEN front ELSE Append(front, s[Len(s)])

\* C16: apply_template on a loaded session succeeds and stores, in template
\* order and repetitions apart, the column each template name selects: the
\* column of that name, or else the first column in column order such that
\* one name contains the other; a name that selects nothing adds nothing.
C16_TemplateSelectsExactThenFirstContaining ==
    [][\A template_columns \in Templates :
          (apply_template(template_columns) /\ Loaded)
          => /\ ret' = "True"
             /\ Dedup(columns_to_delete') =
                    Dedup(Selections(template_columns, original_data.cols))
             /\ UNCHANGED <<original_data, processed_data,
                            columns_to_recalculate, processing_history>>]_vars

\* on the sheet with two invoice-number columns a template stored je and
\* then the digital invoice number, the first of the two columns that a
\* part of the name selects
C16_Witness ==
    /\ op = "apply_template" /\ ret = "True"
    /\ original_data.cols = <<"sdfphm", "fphm", "je">>
    /\ columns_to_delete = <<"je", "sdfphm">>

\* the elements of s differ from each other
NoDuplicates(s) == \A i, j \in 1..Len(s) : s[i] = s[j] => i = j

\* C17, as claimed: the deletion plan that apply_template stores never holds
\* a column twice.
C17_TemplatePlanHasNoDuplicates ==
    [][(op' = "apply_template" /\ ret' = "True")
       => NoDuplicates(columns_to_delete')]_vars

\* the text of a goods cell, blanks at both ends apart; "" for an empty cell
GoodsText(df, col, i) ==
    IF notna(df.rows[i][col]) THEN Strip(Str(df.rows[i][col], df.dtype[col])) ELSE ""

\* the lookup of a call over sheets: for every non-null join-key cell of
\* the primary sheet, the entry is the goods text of the first detail row
\* with an equal join-key cell, and there is no entry when there is no such
\* row or when that row's goods text is empty; there is no other entry
LookupTakesFirstRow(sheets, call) ==
    LET primary == sheets[call.invoice_sheet_name]
        detail == sheets[call.detail_sheet_name]
        chosen == ChooseInvoiceColumn(primary, call.invoice_column)
        map == extract_goods_names_by_invoice(sheets, call.invoice_sheet_name,
                   call.detail_sheet_name, call.invoice_column, call.goods_column)
    IN  (/\ chosen # <<>>
         /\ chosen[1] \in Columns(primary) \cap Columns(detail)
         /\ call.goods_column \in Columns(detail))
        => LET key == chosen[1]
               cells == {primary.rows[i][key] : i \in 1..Len(primary.rows)} \ {NaN}
               text(x) == Str(x, primary.dtype[key])
               rows(x) == {i \in 1..Len(detail.rows) : detail.rows[i][key] = x}
               first(x) == CHOOSE i \in rows(x) : \A j \in rows(x) : i <= j
           IN  /\ DOMAIN map \subseteq {text(x) : x \in cells}
               /\ \A x \in cells :
                      IF rows(x) = {}
                         \/ GoodsText(detail, call.goods_column, first(x)) = ""
                      THEN text(x) \notin DOMAIN map
                      ELSE /\ text(x) \in DOMAIN map
                           /\ map[text(x)] =
                                  GoodsText(detail, call.goods_column, first(x))

\* C18: over the sheets of every state and for every call, the lookup holds
\* for each key the goods name of the first detail row, in row order, whose
\* join-key cell equals the key; later rows of the same key change nothing;
\* a key whose first row has a null or blank goods name has no entry, and a
\* key without a detail row has none.
C18_LookupTakesFirstDetailRow ==
    \A call \in LedgerCalls :
        ({call.invoice_sheet_name, call.detail_sheet_name}
             \subseteq DOMAIN cross_sheet_data)
        => LookupTakesFirstRow(cross_sheet_data, call)

\* an association over the invoice sheet has filled the new column: invoice
\* 1 has the goods name of its first detail row, invoice 2, whose first
\* detail row has none and whose second has one, has the empty text, and so
\* has the row whose first detail row has a blank name
C18_Witness ==
    /\ op = "process_cross_sheet_association" /\ ret = "True"
    /\ "jcxx" \in DOMAIN cross_sheet_data
    /\ cross_sheet_data["jcxx"].cols = <<"fphm", "je", "bz", "hwmc">>
    /\ cross_sheet_data["jcxx"].rows[1]["hwmc"] = Txt("pen")
    /\ cross_sheet_data["jcxx"].rows[2]["hwmc"] = Txt("")
    /\ cross_sheet_data["jcxx"].rows[3]["hwmc"] = Txt("")
    /\ Last(processing_history).matched_invoices = 1

\* the join key the specification names for a sheet, as a list of one or
\* no name
JoinKeyOf(df) ==
    IF "sdfphm" \in Columns(df) THEN <<"sdfphm">>
    ELSE IF "fphm" \in Columns(df) THEN <<"fphm">>
    ELSE <<>>

\* the lookup value of row i of df under a lookup and a join key
Looked(df, key, map, i) ==
    LET c == df.rows[i][key]
        text == IF notna(c) THEN Str(c, RowDtype(df, key)) ELSE ""
    IN  IF text \in DOMAIN map THEN Txt(map[text]) ELSE Txt("")

\* C19: an association called without a join key fails and changes nothing
\* when the primary sheet has neither invoice-number column; when it
\* succeeds, the lookup it counts and the cells it writes are those of the
\* digital invoice number if the sheet has that column and of the invoice
\* number otherwise; the two steps choose the same key for every sheet.
C19_JoinKeyDigitalNumberFirst ==
    [][\A call \in LedgerCalls :
          (/\ process_cross_sheet_association(call)
           /\ call.invoice_column = <<>>
           /\ call.invoice_sheet_name \in DOMAIN cross_sheet_data)
          => LET primary == cross_sheet_data[call.invoice_sheet_name]
                 key == JoinKeyOf(primary)
                 map == extract_goods_names_by_invoice(cross_sheet_data,
                            call.invoice_sheet_name, call.detail_sheet_name,
                            key, call.goods_column)
                 after == cross_sheet_data'[call.invoice_sheet_name]
             IN  /\ key = <<>> => (ret' = "False" /\ UNCHANGED session)
                 /\ ret' = "True"
                    => /\ key # <<>>
                       /\ Last(processing_history').matched_invoices =
                              Cardinality(DOMAIN map)
                       /\ \A i \in 1..Len(primary.rows) :
                              after.rows[i][call.new_column_name] =
                                  Looked(primary, key[1], map, i)
                 /\ \A name \in DOMAIN cross_sheet_data' :
                        ChooseInvoiceColumn(cross_sheet_data'[name], <<>>) =
                            ChooseInvoiceColumnToAppend(cross_sheet_data'[name], <<>>)]_vars

\* an association without a join key over the sheet with both
\* invoice-number columns has looked the rows up by the digital number
C19_Witness ==
    /\ op = "process_cross_sheet_association" /\ ret = "True"
    /\ "sd" \in DOMAIN cross_sheet_data
    /\ cross_sheet_data["sd"].cols = <<"sdfphm", "fphm", "je", "hwmc">>
    /\ cross_sheet_data["sd"].rows[1]["hwmc"] = Txt("pen")
    /\ cross_sheet_data["sd"].rows[2]["hwmc"] = Txt("")
    /\ Last(processing_history).invoice_sheet = "sd"

\* C20, as claimed: a successful association leaves the primary sheet with
\* the new column appended as its last column: one column more, every
\* earlier column in its place with its cells, and in the new column the
\* lookup value of each row's join-key text, or the empty text; whatever
\* the new column's name is.
C20_NewColumnAppendedLast ==
    [][\A call \in LedgerCalls :
          (process_cross_sheet_association(call) /\ ret' = "True")
          => LET primary == cross_sheet_data[call.invoice_sheet_name]
                 after == cross_sheet_data'[call.invoice_sheet_name]
                 key == ChooseInvoiceColumn(primary, call.invoice_column)[1]
                 map == extract_goods_names_by_invoice(cross_sheet_data,
                            call.invoice_sheet_name, call.detail_sheet_name,
                            call.invoice_column, call.goods_column)
             IN  /\ after.cols = Append(primary.cols, call.new_column_name)
                 /\ Len(after.rows) = Len(primary.rows)
                 /\ \A i \in 1..Len(primary.rows) :
                        /\ \A c \in Columns(primary) :
                               after.rows[i][c] = primary.rows[i][c]
                        /\ after.rows[i][call.new_column_name] =
                               Looked(primary, key, map, i)]_vars

\* the rows of df whose cell in column col is not null
ValidRows(df, col) == {i \in 1..Len(df.rows) : df.rows[i][col].t # "nan"}

\* C21: for the processed dataset of every state and every column name,
\* get_column_sum fails when the name is no column, when the column is not
\* numeric and when every cell of it is null; otherwise it returns the
\* number of rows, the number of null cells, their difference, the sum of
\* the non-null cells and that sum over that difference; the call reports
\* what the result says and changes nothing.
C21_ColumnSumStatistics ==
    [][\A column_name \in SumColumns :
          get_column_sum(column_name)
          => LET df == processed_data
                 r == column_sum_result(column_name, df)
                 valid == IF column_name \in Columns(df)
                          THEN ValidRows(df, column_name) ELSE {}
             IN  /\ UNCHANGED session
                 /\ ret' = "True" <=> r.success
                 /\ r.success <=>
                        (/\ ~df.none
                         /\ column_name \in Columns(df)
                         /\ df.dtype[column_name] \in {"int64", "float64"}
                         /\ valid # {})
                 /\ r.success
                    => /\ r.total_count = Len(df.rows)
                       /\ r.null_count = Len(df.rows) - Cardinality(valid)
                       /\ r.valid_count = r.total_count - r.null_count
                       /\ r.sum = SumOver(df, column_name, valid)
                       /\ r.average = [num |-> r.sum, den |-> r.valid_count]]_vars

\* the sum of the amounts 4 and 3 around an empty cell was asked for
C21_Witness ==
    /\ op = "get_column_sum" /\ ret = "True"
    /\ Loaded /\ processed_data.cols = <<"mc", "je", "kb">>
    /\ column_sum_result("je", processed_data) =
           [success |-> TRUE, sum |-> 7, total_count |-> 3, valid_count |-> 2,
            null_count |-> 1, average |-> [num |-> 7, den |-> 2]]
    /\ ~column_sum_result("kb", processed_data).success

\* how many entries of the list carry this file name
Occurrences(list, file_name) ==
    Cardinality({i \in 1..Len(list) : list[i].file_name = file_name})

\* C22: after a batch run every file is counted once, as processed (and then
\* saved) or as failed, a failed file does not keep the others from being
\* processed, and what the run records for a file (the failed step, the
\* statistics, the saved table) is what a run of that file alone records.
C22_BatchFilesIsolatedAndCountedOnce ==
    LET files == batch.batch_files
        alone(i) == batch_result(<<files[i]>>, batch.selected_columns_to_delete)
    IN  /\ batch.processed_files + Len(batch.failed_files) = Len(files)
        /\ batch.processed_files = Len(batch.saved)
        /\ \A i \in 1..Len(files) :
              /\ Occurrences(batch.failed_files, files[i].file_name)
                    + Occurrences(batch.saved, files[i].file_name)
                 = Occurrences(files, files[i].file_name)
              /\ Range(alone(i).failed_files) \subseteq Range(batch.failed_files)
              /\ Range(alone(i).saved) \subseteq Range(batch.saved)
              /\ Range(alone(i).batch_stats) \subseteq Range(batch.batch_stats)

\* a batch whose first file does not open and whose second cannot be saved,
\* and whose third is processed: two failed, one saved without the column bz
C22_Witness ==
    /\ op = "_do_batch_processing"
    /\ batch.batch_files = <<FileBroken, FileOther, FileInvoice>>
    /\ batch.processed_files = 1
    /\ batch.failed_files = <<[file_name |-> "broken", step |-> "load_file"],
                              [file_name |-> "other", step |-> "save"]>>
    /\ Len(batch.saved) = 1
    /\ batch.saved[1].file_name = "invoice"
    /\ batch.saved[1].data.cols = <<"fphm", "je">>
    /\ Len(batch.batch_stats) = 2

\* the text of a join-key cell, trimmed
KeyText(df, col, i) == Strip(Str(df.rows[i][col], df.dtype[col]))

\* C23: whenever process_cross_sheet_association builds its lookup, a
\* detail row matches a join-key cell of the primary sheet exactly when the
\* two cells are equal as trimmed text, and the key the lookup is written
\* under for a primary row is the key the appending step looks up for it.
C23_KeysMatchAsTrimmedText ==
    [][\A call \in KeyCalls :
          (/\ process_cross_sheet_association(call)
           /\ {call.invoice_sheet_name, call.detail_sheet_name}
                  \subseteq DOMAIN cross_sheet_data)
          => LET primary == cross_sheet_data[call.invoice_sheet_name]
                 detail == cross_sheet_data[call.detail_sheet_name]
                 chosen == ChooseInvoiceColumn(primary, call.invoice_column)
                 key == chosen[1]
             IN  (chosen # <<>> /\ key \in Columns(primary) \cap Columns(detail))
                 => \A i \in 1..Len(primary.rows) :
                        notna(primary.rows[i][key])
                        => /\ \A j \in 1..Len(detail.rows) :
                                  notna(detail.rows[j][key])
                                  => (j \in MatchingRows(detail, key,
                                                         primary.rows[i][key])
                                      <=> KeyText(detail, key, j)
                                              = KeyText(primary, key, i))
                           /\ Str(primary.rows[i][key], primary.dtype[key])
                                  = Str(primary.rows[i][key],
                                        RowDtype(primary, key))]_vars

\* C24: in every state with a dataset loaded, the processed dataset has as
\* many rows as the original dataset, and its columns are columns of the
\* original dataset in the original's order.
C24_ProcessedIsColumnSelectionOfOriginal ==
    Loaded
    => /\ ~processed_data.none
       /\ Len(processed_data.rows) = Len(original_data.rows)
       /\ Columns(processed_data) \subseteq Columns(original_data)
       /\ NoDuplicates(processed_data.cols)
       /\ InOrderOf(processed_data.cols, original_data.cols)

\* a process_data after an association: the original dataset has the added
\* goods-name column, the processed dataset has it without the deleted one
C24_Witness ==
    /\ op = "process_data" /\ ret = "True"
    /\ original_data.cols = <<"fphm", "je", "bz", "hwmc">>
    /\ processed_data.cols = <<"fphm", "je", "hwmc">>
    /\ Len(processed_data.rows) = 3
    /\ \E i \in 1..Len(processing_history) :
           "operation" \in DOMAIN processing_history[i]

\* C25: a successful process_data leaves no column of the deletion plan in
\* the processed dataset, and no later step other than load_data, reset,
\* set_columns_to_delete and apply_template brings one back.
C25_DeletedColumnsStayDeleted ==
    [][/\ (op' = "process_data" /\ ret' = "True")
          => Columns(processed_data') \cap Range(columns_to_delete') = {}
       /\ (/\ Loaded
           /\ Plan # {}
           /\ Columns(processed_data) \cap Plan = {}
           /\ op' \notin {"load_data", "reset", "set_columns_to_delete",
                          "apply_template"})
          => Columns(processed_data') \cap Range(columns_to_delete') = {}]_vars

\* C26: whenever process_cross_sheet_association reports success with a
\* dataset loaded, the original dataset afterwards is the original dataset
\* before with the new column added: the same rows, the same cells in every
\* earlier column, and the new column's name after the earlier names.
C26_AssociationOnlyAddsColumnToOriginal ==
    [][\A call \in KeyCalls :
          (process_cross_sheet_association(call) /\ ret' = "True" /\ Loaded)
          => /\ original_data'.cols
                    = Append(original_data.cols, call.new_column_name)
             /\ Len(original_data'.rows) = Len(original_data.rows)
             /\ \A i \in 1..Len(original_data.rows) :
                    \A c \in Columns(original_data) :
                        original_data'.rows[i][c] = original_data.rows[i][c]]_vars

\* C27: the summary taken right after a successful process_data is
\* self-consistent: the original column count is the deleted count plus the
\* remaining count, no column is both deleted and remaining, and the deleted
\* and the remaining columns together are the original columns.
C27_SummaryConsistentAfterProcess ==
    [][(op = "process_data" /\ ret = "True" /\ get_processing_summary)
       => LET summary == processing_summary(original_data, processed_data,
                             columns_to_delete, processing_history)
          IN  /\ summary.original_columns_count
                     = summary.deleted_columns_count
                           + summary.remaining_columns_count
              /\ Range(summary.deleted_columns)
                     \cap Range(summary.remaining_columns) = {}
              /\ Range(summary.deleted_columns)
                     \cup Range(summary.remaining_columns)
                 = Columns(original_data)]_vars

\* the columns in which row i of df shows a keyword
KeywordColumns(df, i) ==
    {c \in Columns(df) : \E k \in Keywords :
        df.rows[i][c].t = "txt" /\ StrIn(k, df.rows[i][c].s)}

\* the first of a non-empty set of rows
First(rows) == CHOOSE i \in rows : \A j \in rows : i <= j

\* the rows of the original dataset that show a keyword in a kept column
KeptKeywordRows ==
    {i \in KeywordRows(original_data) : KeywordColumns(original_data, i) \ Plan # {}}

\* C28: when every keyword cell of the original's summary row lies in a
\* deleted column, a process_data whose plan is accepted succeeds; if no row
\* shows a keyword in a kept column the result is the original restricted to
\* the kept columns, and otherwise the first such row, a later row, is the
\* one recalculated and the original's summary row keeps its cells.
C28_SummaryRowLocatedAfterDeletion ==
    [][(/\ op' = "process_data" /\ Loaded /\ PlanAccepted
        /\ KeywordRows(original_data) # {}
        /\ KeywordColumns(original_data, First(KeywordRows(original_data)))
               \subseteq Plan)
       => /\ ret' = "True"
          /\ IF KeptKeywordRows = {}
             THEN EqualsOriginalOnKept(processed_data')
             ELSE LET was == First(KeywordRows(original_data))
                      now == First(KeptKeywordRows)
                  IN  /\ now > was
                      /\ Columns(processed_data') = Kept
                      /\ Len(processed_data'.rows) = Len(original_data.rows)
                      /\ \A i \in 1..Len(original_data.rows) : \A c \in Kept :
                             processed_data'.rows[i][c] =
                                 IF i = now /\ c \in Recomputed
                                 THEN Num(SumOver(original_data, c,
                                          (1..Len(original_data.rows)) \ {now}))
                                 ELSE original_data.rows[i][c]]_vars

\* the column of the keyword of row 2 was deleted: row 3 was recalculated
\* over rows 1 and 2, and row 2 kept its amounts
C28_Witness ==
    /\ op = "process_data" /\ ret = "True"
    /\ original_data = SheetTotals
    /\ KeywordColumns(original_data, 2) = {"bz"}
    /\ columns_to_delete = <<"bz">>
    /\ columns_to_recalculate = <<"je", "se">>
    /\ processed_data.cols = <<"fphm", "je", "se">>
    /\ processed_data.rows[2] = [fphm |-> Txt("2"), je |-> Num(2), se |-> Num(7)]
    /\ processed_data.rows[3] = [fphm |-> Txt("heji"), je |-> Num(3), se |-> Num(7)]

\* the primary sheet, the original and the processed dataset that a run of
\* the call leaves when it starts from these
AfterRun(sheets, original, processed, call) ==
    LET map == extract_goods_names_by_invoice(sheets, call.invoice_sheet_name,
                   call.detail_sheet_name, call.invoice_column, call.goods_column)
        added == add_goods_names_to_invoice_sheet(sheets, original, processed,
                     call.invoice_sheet_name, map, call.invoice_column,
                     call.new_column_name)
    IN  IF DOMAIN map = {} \/ ~added.ok
        THEN <<sheets[call.invoice_sheet_name], original, processed>>
        ELSE <<added.sheets[call.invoice_sheet_name], added.original,
               added.processed>>

\* C29: a successful process_cross_sheet_association appends one record to
\* the history, and a second run with the same arguments would leave the
\* primary sheet, the original and the processed dataset as the first run
\* left them.
C29_AssociationIdempotentOnData ==
    [][\A call \in KeyCalls :
          (process_cross_sheet_association(call) /\ ret' = "True")
          => /\ Len(processing_history') = Len(processing_history) + 1
             /\ AfterRun(cross_sheet_data', original_data', processed_data', call)
                    = <<cross_sheet_data'[call.invoice_sheet_name],
                        original_data', processed_data'>>]_vars

\* C30: set_columns_to_delete, set_columns_to_recalculate, apply_template
\* and process_data called while no dataset is loaded return False and
\* change no field; load_data of an empty dataset returns False and changes
\* no field, so a dataset loaded before, the plans and the history stay.
C30_RejectedForLackOfDataChangesNothing ==
    [][/\ (/\ ~Loaded
           /\ op' \in {"set_columns_to_delete", "set_columns_to_recalculate",
                       "apply_template", "process_data"})
          => (ret' = "False" /\ session' = session)
       /\ \A data \in Datasets :
              (load_data(data) /\ empty(data))
              => (ret' = "False" /\ session' = session)]_vars

\* an empty dataset was refused while a dataset, a deletion plan and a
\* history record were held, and they are still there
C30_Witness ==
    /\ op = "load_data" /\ ret = "False"
    /\ original_data = SheetInvoice
    /\ processed_data.cols = <<"fphm", "je">>
    /\ columns_to_delete = <<"bz">>
    /\ Len(processing_history) = 1
====
